---- MODULE Spec2Model ----
(***************************************************************************)
(* A model of the CAS client of src/src/cas.rs: the construction of the    *)
(* four configured URLs, the URL accessors and the redirects, the          *)
(* validation URL built by verify_ticket, the scan of the validation       *)
(* server's XML event stream, the ticket extraction of                     *)
(* verify_from_request, and callers that share one client.                 *)
(*                                                                         *)
(* Text is a sequence of atoms.  An atom is a run of characters that the   *)
(* URL and form-urlencoded algorithms treat as a unit: a delimiter ("?",   *)
(* "&", "="), a character with a special encoding ("+", " "), a percent    *)
(* escape ("%26"), or a run of characters without any of these ("ticket",  *)
(* "ST").  "https://cas" stands for a scheme and an authority.             *)
(***************************************************************************)
EXTENDS Naturals, Sequences, FiniteSets, TLC

\* ---------------------------------------------------------------- bounds

\* longest event stream the validation server replies with
MaxEvents == 3
\* longest ticket handed to verify_ticket directly, in atoms
MaxTicketLen == 2
\* longest query string of an inbound request, in atoms
MaxQueryLen == 7

\* ------------------------------------------------------------------ text

\* all texts of at most n atoms of A
TextsUpTo(A, n) == UNION {[1..k -> A] : k \in 0..n}

\* index of the first occurrence of atom a in s, 0 when there is none
RECURSIVE IndexOfFrom(_, _, _)
IndexOfFrom(s, a, i) ==
    IF i > Len(s) THEN 0
    ELSE IF s[i] = a THEN i
    ELSE IndexOfFrom(s, a, i + 1)

IndexOf(s, a) == IndexOfFrom(s, a, 1)

\* the pieces of s between occurrences of the delimiter d
RECURSIVE Split(_, _)
Split(s, d) ==
    LET i == IndexOf(s, d) IN
    IF i = 0 THEN <<s>>
    ELSE <<SubSeq(s, 1, i - 1)>> \o Split(SubSeq(s, i + 1, Len(s)), d)

\* ------------------------------------------------------------- url crate

\* scheme-and-authority prefixes an absolute URL starts with
Origins == {"https://cas", "https://svc", "http://none", "http://host"}

NoQuery == [some |-> FALSE, val |-> <<>>]
SomeQuery(q) == [some |-> TRUE, val |-> q]

NoUrl == [origin |-> "", path |-> <<>>, query |-> NoQuery]

\* url::ParseError: the value names the kind of failure and nothing else
ParseError(kind) == [diagnostic |-> kind]
NoParseError == ParseError("")

\* Url::parse: a text that does not start with a scheme is a relative URL
\* and fails, and so does a scheme without a host; the path runs to the
\* first "?", the query is the rest; an empty path of a URL with an
\* authority is "/"
UrlParse(s) ==
    IF s = <<>> \/ Head(s) \notin (Origins \cup {"https://"})
    THEN [ok |-> FALSE, err |-> ParseError("RelativeUrlWithoutBase"), url |-> NoUrl]
    ELSE IF Head(s) = "https://"
    THEN [ok |-> FALSE, err |-> ParseError("EmptyHost"), url |-> NoUrl]
    ELSE LET rest == Tail(s)
             i == IndexOf(rest, "?")
             rawPath == IF i = 0 THEN rest ELSE SubSeq(rest, 1, i - 1)
         IN [ok |-> TRUE, err |-> NoParseError,
             url |-> [origin |-> Head(s),
                      path |-> IF rawPath = <<>> THEN <<"/">> ELSE rawPath,
                      query |-> IF i = 0 THEN NoQuery
                                ELSE SomeQuery(SubSeq(rest, i + 1, Len(rest)))]]

\* Url::serialize
Serialize(u) ==
    <<u.origin>> \o u.path \o (IF u.query.some THEN <<"?">> \o u.query.val ELSE <<>>)

\* form_urlencoded byte serialisation of one atom: a space becomes "+",
\* alphanumerics stay, every other byte becomes a percent escape
FormEncodeAtom(a) ==
    CASE a = " " -> "+"
      [] a = "&" -> "%26"
      [] a = "=" -> "%3D"
      [] a = "+" -> "%2B"
      [] a = "?" -> "%3F"
      [] a = "/" -> "%2F"
      [] a = "%26" -> "%2526"
      [] a = "/callback" -> "%2Fcallback"
      [] a = "/serviceValidate" -> "%2FserviceValidate"
      [] a = "https://cas" -> "https%3A%2F%2Fcas"
      [] a = "https://svc" -> "https%3A%2F%2Fsvc"
      [] a = "http://none" -> "http%3A%2F%2Fnone"
      [] a = "http://host" -> "http%3A%2F%2Fhost"
      [] OTHER -> a

\* form_urlencoded decoding of one atom: "+" is a space, a percent escape is
\* the byte it names
FormDecodeAtom(a) ==
    CASE a = "+" -> " "
      [] a = "%26" -> "&"
      [] a = "%3D" -> "="
      [] a = "%2B" -> "+"
      [] a = "%3F" -> "?"
      [] a = "%2F" -> "/"
      [] a = "%2526" -> "%26"
      [] a = "%2Fcallback" -> "/callback"
      [] a = "%2FserviceValidate" -> "/serviceValidate"
      [] a = "https%3A%2F%2Fcas" -> "https://cas"
      [] a = "https%3A%2F%2Fsvc" -> "https://svc"
      [] a = "http%3A%2F%2Fnone" -> "http://none"
      [] a = "http%3A%2F%2Fhost" -> "http://host"
      [] OTHER -> a

FormEncode(s) == [i \in 1..Len(s) |-> FormEncodeAtom(s[i])]
FormDecode(s) == [i \in 1..Len(s) |-> FormDecodeAtom(s[i])]

Pair(n, v) == [name |-> n, value |-> v]

\* form_urlencoded::serialize: name=value joined by "&"
RECURSIVE FormSerialize(_)
FormSerialize(pairs) ==
    IF pairs = <<>> THEN <<>>
    ELSE LET p == Head(pairs)
             one == FormEncode(p.name) \o <<"=">> \o FormEncode(p.value)
         IN IF Len(pairs) = 1 THEN one
            ELSE one \o <<"&">> \o FormSerialize(Tail(pairs))

\* one piece of a query: split at the first "=", both sides decoded
ParsePiece(piece) ==
    LET i == IndexOf(piece, "=") IN
    IF i = 0 THEN Pair(FormDecode(piece), <<>>)
    ELSE Pair(FormDecode(SubSeq(piece, 1, i - 1)),
              FormDecode(SubSeq(piece, i + 1, Len(piece))))

\* form_urlencoded::parse: the pieces between "&", empty pieces skipped
FormParse(q) ==
    LET pieces == SelectSeq(Split(q, "&"), LAMBDA p : p # <<>>) IN
    [i \in 1..Len(pieces) |-> ParsePiece(pieces[i])]

\* Url::query_pairs: None without a query, the parsed pairs otherwise
QueryPairs(u) ==
    IF u.query.some THEN [some |-> TRUE, val |-> FormParse(u.query.val)]
    ELSE [some |-> FALSE, val |-> <<>>]

\* Url::set_query_from_pairs: the query is replaced by the serialised pairs
SetQueryFromPairs(u, pairs) == [u EXCEPT !.query = SomeQuery(FormSerialize(pairs))]

\* ------------------------------------------------------------- CasClient

NoClient == [login_url |-> NoUrl, logout_url |-> NoUrl,
             verify_url |-> NoUrl, service_url |-> NoUrl]

\* New without the test of the logout URL: a client is built around a
\* logout URL that did not parse
NewLogoutUnchecked(base_url, login_path, logout_path, verify_path, service_url) ==
    LET login == UrlParse(base_url \o login_path)
        logout == UrlParse(base_url \o logout_path)
        verify == UrlParse(base_url \o verify_path)
        service == UrlParse(service_url)
    IN  IF ~login.ok THEN [ok |-> FALSE, err |-> login.err, client |-> NoClient]
        ELSE IF ~verify.ok THEN [ok |-> FALSE, err |-> verify.err, client |-> NoClient]
        ELSE IF ~service.ok THEN [ok |-> FALSE, err |-> service.err, client |-> NoClient]
        ELSE [ok |-> TRUE, err |-> NoParseError,
              client |-> [login_url |-> login.url, logout_url |-> logout.url,
                          verify_url |-> verify.url, service_url |-> service.url]]

\* CasClient::new: the four texts are parsed in the order login, logout,
\* verify, service; the first failure is returned and no client is built
New(base_url, login_path, logout_path, verify_path, service_url) ==
    LET login == UrlParse(base_url \o login_path)
        logout == UrlParse(base_url \o logout_path)
        verify == UrlParse(base_url \o verify_path)
        service == UrlParse(service_url)
    IN  IF ~login.ok THEN [ok |-> FALSE, err |-> login.err, client |-> NoClient]
        ELSE IF ~logout.ok THEN [ok |-> FALSE, err |-> logout.err, client |-> NoClient]
        ELSE IF ~verify.ok THEN [ok |-> FALSE, err |-> verify.err, client |-> NoClient]
        ELSE IF ~service.ok THEN [ok |-> FALSE, err |-> service.err, client |-> NoClient]
        ELSE [ok |-> TRUE, err |-> NoParseError,
              client |-> [login_url |-> login.url, logout_url |-> logout.url,
                          verify_url |-> verify.url, service_url |-> service.url]]

\* the constructions the program is started with: a verify path without and
\* with a query of its own, a service URL without and with a query
ConstructorArgs ==
    { <<(<<"https://cas">>), (<<"/login">>), (<<"/logout">>),
        (<<"/serviceValidate">>), (<<"https://svc", "/callback">>)>>,
      <<(<<"https://cas">>), (<<"/login">>), (<<"/logout">>),
        (<<"/serviceValidate", "?", "x", "=", "x">>),
        (<<"https://svc", "/callback", "?", "x", "=", "x", "&", "x">>)>> }

\* the texts CasClient::new is tried with: a base that is absolute, empty or
\* a scheme without a host; paths that are relative, empty, with a query, or
\* absolute by themselves; a service URL that is absolute, relative or
\* without a host
Bases == { (<<"https://cas">>), (<<>>), (<<"https://">>) }
LoginPaths ==
    { (<<"/login">>), (<<"/login", "?", "x", "=", "x">>), (<<"https://cas", "/login">>) }
LogoutPaths ==
    { (<<"/logout">>), (<<>>), (<<"/login">>), (<<"https://cas", "/logout">>) }
VerifyPaths == { (<<"/serviceValidate">>), (<<"https://cas", "/serviceValidate">>) }
ServiceUrls ==
    { (<<"https://svc", "/callback">>),
      (<<"https://svc", "/callback", "?", "x", "=", "x", "&", "x">>),
      (<<"/callback">>),
      (<<"https://", "/callback">>) }

\* a path that is absolute by itself goes with the empty base
NewArgs ==
    { a \in Bases \X LoginPaths \X LogoutPaths \X VerifyPaths \X ServiceUrls :
        \/ a[1] = <<>>
        \/ \A i \in 2..4 : a[i] = <<>> \/ Head(a[i]) \notin Origins }

\* a call of CasClient::new and what it returned
Construct(a) ==
    LET out == New(a[1], a[2], a[3], a[4], a[5]) IN
    [args |-> a, ok |-> out.ok, err |-> out.err, client |-> out.client]

NoConstruct ==
    [args |-> <<>>, ok |-> FALSE, err |-> NoParseError, client |-> NoClient]

Clients ==
    { New(a[1], a[2], a[3], a[4], a[5]).client :
        a \in {b \in ConstructorArgs : New(b[1], b[2], b[3], b[4], b[5]).ok} }

\* the parameters verify_ticket puts on the verify URL, in order
ValidationParamsTicketFirst(self, ticket) ==
    << Pair(<<"ticket">>, ticket),
       Pair(<<"service">>, Serialize(self.service_url)) >>

ValidationParams(self, ticket) ==
    << Pair(<<"service">>, Serialize(self.service_url)),
       Pair(<<"ticket">>, ticket) >>

\* the URL verify_ticket sends its GET to
ValidationUrl(self, ticket) ==
    Serialize(SetQueryFromPairs(self.verify_url, ValidationParams(self, ticket)))

\* get_login_url with the service parameter added to the query the login URL
\* had
GetLoginUrlAppends(self) ==
    Serialize(
        IF self.login_url.query.some
        THEN [self.login_url EXCEPT !.query =
                SomeQuery(self.login_url.query.val \o <<"&">> \o
                    FormSerialize(<<Pair(<<"service">>, Serialize(self.service_url))>>))]
        ELSE SetQueryFromPairs(self.login_url,
                <<Pair(<<"service">>, Serialize(self.service_url))>>))

\* get_login_url: a copy of the login URL whose query is the one parameter
\* service
GetLoginUrl(self) ==
    Serialize(SetQueryFromPairs(self.login_url,
        <<Pair(<<"service">>, Serialize(self.service_url))>>))

\* get_logout_url that returns what get_login_url returns
GetLogoutUrlIsLogin(self) == GetLoginUrl(self)

\* get_logout_url
GetLogoutUrl(self) == Serialize(self.logout_url)

\* StatusCode::Found
Found == 302

\* what a redirect does to the hyper Response it is handed
SetStatus(code) == [op |-> "status", code |-> code, text |-> <<>>]
SetLocation(url) == [op |-> "Location", code |-> 0, text |-> url]
Send(body) == [op |-> "send", code |-> 0, text |-> body]

\* logout_redirect with the Location of login_redirect
LogoutRedirectToLogin(self) ==
    << SetStatus(Found), SetLocation(GetLoginUrl(self)), Send(<<>>) >>

\* login_redirect
LoginRedirect(self) ==
    << SetStatus(Found), SetLocation(GetLoginUrl(self)), Send(<<>>) >>

\* logout_redirect
LogoutRedirect(self) ==
    << SetStatus(Found), SetLocation(GetLogoutUrl(self)), Send(<<>>) >>

\* ---------------------------------------------------- results and errors

Result(tag, val) == [tag |-> tag, val |-> val]

NoResult == Result("None", <<>>)
\* Ok(ServiceResponse::Success(name))
Success(name) == Result("Success", name)
\* Ok(ServiceResponse::Failure(reason))
Failure(reason) == Result("Failure", reason)
\* Err(VerifyError::...)
ErrHyper == Result("Err", <<"Hyper">>)
ErrXml == Result("Err", <<"Xml">>)
ErrUrl == Result("Err", <<"Url">>)
ErrUnsupportedUriType == Result("Err", <<"UnsupportedUriType">>)
ErrNoTicketFound == Result("Err", <<"NoTicketFound">>)
\* the thread panics: attributes[0] of an empty vector
Panic == Result("Panic", <<"index out of bounds">>)
\* the panic of unwrap() on the Err of Response::send
PanicUnwrap == Result("Panic", <<"called unwrap() on an Err value">>)
\* the String a URL accessor returns, the () a redirect returns
UrlString(s) == Result("String", s)
Unit == Result("Unit", <<>>)

\* the reason verify_ticket gives when the stream ends without a reply
Sentinel == <<"did not detect authentication reply from CAS server">>

\* ------------------------------------------------------ xml event stream

Event(type, name, attributes, text) ==
    [type |-> type, name |-> name, attributes |-> attributes, text |-> text]

\* XmlEvent::StartElement; name is name.local_name
StartElement(name, attributes) == Event("StartElement", name, attributes, <<>>)
\* XmlEvent::Characters
Characters(text) == Event("Characters", "", <<>>, text)
\* the event kinds the scan has no arm for
EndElement == Event("EndElement", "", <<>>, <<>>)
Whitespace == Event("Whitespace", "", <<>>, <<" ">>)
\* an Err item of the event iterator
XmlErr == Event("Err", "", <<>>, <<>>)

Attribute(name, value) == [name |-> name, value |-> value]
AttrCode == Attribute("code", <<"INVALID_TICKET">>)
AttrLang == Attribute("lang", <<"en">>)

\* the events the validation server's reply is made of
Events ==
    { StartElement("authenticationSuccess", <<>>),
      StartElement("authenticationFailure", <<>>),
      StartElement("authenticationFailure", <<AttrCode>>),
      StartElement("authenticationFailure", <<AttrLang, AttrCode>>),
      StartElement("user", <<>>),
      Characters(<<"alice">>),
      Characters(<<"bob">>),
      EndElement,
      Whitespace,
      XmlErr }

\* the event iterator ends after an Err item: an Err is the last event
Bodies ==
    { b \in TextsUpTo(Events, MaxEvents) :
        \A i \in 1..Len(b) : b[i] = XmlErr => i = Len(b) }

\* the replies of the examples: success, failure, neither element, malformed
ExampleBodies ==
    { << StartElement("serviceResponse", <<>>),
         StartElement("authenticationSuccess", <<>>),
         StartElement("user", <<>>), Characters(<<"alice">>),
         EndElement, EndElement, EndElement >>,
      << StartElement("serviceResponse", <<>>),
         StartElement("authenticationFailure", <<AttrCode>>),
         Characters(<<"Ticket not recognized">>), EndElement, EndElement >>,
      << StartElement("serviceResponse", <<>>), EndElement >>,
      << StartElement("serviceResponse", <<>>), XmlErr >> }

\* OnEvent with a Characters arm that does not look at the status
OnEventAnyText(status, e) ==
    IF e.type = "Err" THEN [status |-> status, ret |-> ErrXml]
    ELSE IF e.type = "StartElement" THEN
        IF e.name = "authenticationSuccess"
        THEN [status |-> "ExpectSuccess", ret |-> NoResult]
        ELSE IF e.name = "authenticationFailure"
        THEN [status |-> status,
              ret |-> IF Len(e.attributes) = 0 THEN Panic
                      ELSE Failure(e.attributes[1].value)]
        ELSE [status |-> status, ret |-> NoResult]
    ELSE IF e.type = "Characters" THEN [status |-> status, ret |-> Success(e.text)]
    ELSE [status |-> status, ret |-> NoResult]

\* OnEvent with the Err items of the iterator skipped instead of returned
OnEventErrSkipped(status, e) ==
    IF e.type = "StartElement" THEN
        IF e.name = "authenticationSuccess"
        THEN [status |-> "ExpectSuccess", ret |-> NoResult]
        ELSE IF e.name = "authenticationFailure"
        THEN [status |-> status,
              ret |-> IF Len(e.attributes) = 0 THEN Panic
                      ELSE Failure(e.attributes[1].value)]
        ELSE [status |-> status, ret |-> NoResult]
    ELSE IF e.type = "Characters" THEN
        IF status = "ExpectSuccess"
        THEN [status |-> status, ret |-> Success(e.text)]
        ELSE [status |-> status, ret |-> NoResult]
    ELSE [status |-> status, ret |-> NoResult]

\* OnEvent with an Err item taken for the end of the stream
OnEventErrIsSentinel(status, e) ==
    IF e.type = "Err" THEN [status |-> status, ret |-> Failure(Sentinel)]
    ELSE IF e.type = "StartElement" THEN
        IF e.name = "authenticationSuccess"
        THEN [status |-> "ExpectSuccess", ret |-> NoResult]
        ELSE IF e.name = "authenticationFailure"
        THEN [status |-> status,
              ret |-> IF Len(e.attributes) = 0 THEN Panic
                      ELSE Failure(e.attributes[1].value)]
        ELSE [status |-> status, ret |-> NoResult]
    ELSE IF e.type = "Characters" THEN
        IF status = "ExpectSuccess"
        THEN [status |-> status, ret |-> Success(e.text)]
        ELSE [status |-> status, ret |-> NoResult]
    ELSE [status |-> status, ret |-> NoResult]

\* OnEvent with a status that goes back to None at the end of an element
OnEventEndResets(status, e) ==
    IF e.type = "Err" THEN [status |-> status, ret |-> ErrXml]
    ELSE IF e.type = "StartElement" THEN
        IF e.name = "authenticationSuccess"
        THEN [status |-> "ExpectSuccess", ret |-> NoResult]
        ELSE IF e.name = "authenticationFailure"
        THEN [status |-> status,
              ret |-> IF Len(e.attributes) = 0 THEN Panic
                      ELSE Failure(e.attributes[1].value)]
        ELSE [status |-> status, ret |-> NoResult]
    ELSE IF e.type = "Characters" THEN
        IF status = "ExpectSuccess"
        THEN [status |-> status, ret |-> Success(e.text)]
        ELSE [status |-> status, ret |-> NoResult]
    ELSE [status |-> IF e.type = "EndElement" THEN "None" ELSE status,
          ret |-> NoResult]

\* one turn of the loop of verify_ticket on event e: the next status and
\* the value returned, NoResult when the loop goes on
OnEvent(status, e) ==
    IF e.type = "Err" THEN [status |-> status, ret |-> ErrXml]
    ELSE IF e.type = "StartElement" THEN
        IF e.name = "authenticationSuccess"
        THEN [status |-> "ExpectSuccess", ret |-> NoResult]
        ELSE IF e.name = "authenticationFailure"
        THEN [status |-> status,
              ret |-> IF Len(e.attributes) = 0 THEN Panic
                      ELSE Failure(e.attributes[1].value)]
        ELSE [status |-> status, ret |-> NoResult]
    ELSE IF e.type = "Characters" THEN
        IF status = "ExpectSuccess"
        THEN [status |-> status, ret |-> Success(e.text)]
        ELSE [status |-> status, ret |-> NoResult]
    ELSE [status |-> status, ret |-> NoResult]

\* OnExhausted with a reason of its own for a reply that opened
\* authenticationSuccess and held no text
OnExhaustedByStatus(status) ==
    IF status = "ExpectSuccess" THEN Failure(<<"no user name in CAS reply">>)
    ELSE Failure(Sentinel)

\* what verify_ticket returns when the iterator is exhausted
OnExhausted(status) == Failure(Sentinel)

\* ---------------------------------------------------- inbound requests

\* hyper's RequestUri: AbsolutePath(String), AbsoluteUri(Url),
\* Authority(String), Star
AbsolutePath(s) == [kind |-> "AbsolutePath", s |-> s, u |-> NoUrl]
AbsoluteUri(u) == [kind |-> "AbsoluteUri", s |-> <<>>, u |-> u]
Authority(s) == [kind |-> "Authority", s |-> s, u |-> NoUrl]
Star == [kind |-> "Star", s |-> <<>>, u |-> NoUrl]
NoRequest == [kind |-> "None", s |-> <<>>, u |-> NoUrl]

\* the atoms of the query strings: a name, an escape (of "&"), the delimiters
QueryAtoms == {"ticket", "%26", "=", "&"}

\* the target of a request line: a path alone, or a path, "?" and a query
Target(hasQuery, q) ==
    <<"/callback">> \o (IF hasQuery THEN <<"?">> \o q ELSE <<>>)

\* the request with that target, as hyper hands it over
PathRequest(kind, hasQuery, q) ==
    IF kind = "AbsolutePath" THEN AbsolutePath(Target(hasQuery, q))
    ELSE AbsoluteUri(UrlParse(<<"http://host">> \o Target(hasQuery, q)).url)

\* requests of the other shapes, with and without a ticket in their text
OtherRequests ==
    { Authority(<<"host:443">>),
      Authority(<<"host:443", "?", "ticket", "=", "x">>),
      Star }

\* the requests of the examples
ExampleRequests ==
    { AbsolutePath(<<"/callback", "?", "ticket", "=", "ST", "&", "x", "=", "x">>),
      AbsoluteUri(UrlParse(<<"http://host", "/callback", "?", "ticket", "=", "ST">>).url),
      AbsolutePath(<<"/callback">>),
      Authority(<<"host:443", "?", "ticket", "=", "x">>) }

\* RequestUrl with an Authority completed like an AbsolutePath
RequestUrlAuthorityAsPath(r) ==
    IF r.kind = "AbsolutePath" \/ r.kind = "Authority" THEN
        LET p == UrlParse(<<"http://none">> \o r.s) IN
        IF p.ok THEN [ret |-> NoResult, url |-> p.url]
        ELSE [ret |-> ErrUrl, url |-> NoUrl]
    ELSE IF r.kind = "AbsoluteUri" THEN [ret |-> NoResult, url |-> r.u]
    ELSE [ret |-> ErrUnsupportedUriType, url |-> NoUrl]

\* the match on request.uri: the URL whose query is searched, or the error
RequestUrl(r) ==
    IF r.kind = "AbsolutePath" THEN
        LET p == UrlParse(<<"http://none">> \o r.s) IN
        IF p.ok THEN [ret |-> NoResult, url |-> p.url]
        ELSE [ret |-> ErrUrl, url |-> NoUrl]
    ELSE IF r.kind = "AbsoluteUri" THEN [ret |-> NoResult, url |-> r.u]
    ELSE [ret |-> ErrUnsupportedUriType, url |-> NoUrl]

\* ExtractTicket with a loop that stops at the first pair named ticket
RECURSIVE ExtractTicketFirst(_)
ExtractTicketFirst(queries) ==
    IF queries = <<>> THEN <<>>
    ELSE IF Head(queries).name = <<"ticket">> THEN Head(queries).value
    ELSE ExtractTicketFirst(Tail(queries))

\* the loop over the query pairs: every pair named ticket overwrites
RECURSIVE ExtractTicketFrom(_, _)
ExtractTicketFrom(queries, ticket) ==
    IF queries = <<>> THEN ticket
    ELSE ExtractTicketFrom(Tail(queries),
                           IF Head(queries).name = <<"ticket">>
                           THEN Head(queries).value ELSE ticket)

ExtractTicket(queries) == ExtractTicketFrom(queries, <<>>)

\* VerifyFromRequest without the test for an empty ticket
VerifyFromRequestNoEmptyCheck(r) ==
    LET u == RequestUrl(r) IN
    IF u.ret # NoResult THEN [ret |-> u.ret, ticket |-> <<>>]
    ELSE LET queries == QueryPairs(u.url) IN
         IF ~queries.some THEN [ret |-> ErrNoTicketFound, ticket |-> <<>>]
         ELSE [ret |-> NoResult, ticket |-> ExtractTicket(queries.val)]

\* VerifyFromRequest that takes the ticket found for the user name and
\* returns without a call of verify_ticket
VerifyFromRequestTrustsTicket(r) ==
    LET u == RequestUrl(r) IN
    IF u.ret # NoResult THEN [ret |-> u.ret, ticket |-> <<>>]
    ELSE LET queries == QueryPairs(u.url) IN
         IF ~queries.some THEN [ret |-> ErrNoTicketFound, ticket |-> <<>>]
         ELSE LET ticket == ExtractTicket(queries.val) IN
              IF ticket = <<>> THEN [ret |-> ErrNoTicketFound, ticket |-> <<>>]
              ELSE [ret |-> Success(ticket), ticket |-> ticket]

\* VerifyFromRequest that goes on to verify_ticket, with an empty ticket, for
\* a request of a shape it does not support
VerifyFromRequestUnsupportedGoesOn(r) ==
    LET u == RequestUrl(r) IN
    IF u.ret = ErrUnsupportedUriType THEN [ret |-> NoResult, ticket |-> <<>>]
    ELSE IF u.ret # NoResult THEN [ret |-> u.ret, ticket |-> <<>>]
    ELSE LET queries == QueryPairs(u.url) IN
         IF ~queries.some THEN [ret |-> ErrNoTicketFound, ticket |-> <<>>]
         ELSE LET ticket == ExtractTicket(queries.val) IN
              IF ticket = <<>> THEN [ret |-> ErrNoTicketFound, ticket |-> <<>>]
              ELSE [ret |-> NoResult, ticket |-> ticket]

\* verify_from_request up to its call of verify_ticket: the value returned
\* early, or NoResult and the ticket verify_ticket is called with
VerifyFromRequest(r) ==
    LET u == RequestUrl(r) IN
    IF u.ret # NoResult THEN [ret |-> u.ret, ticket |-> <<>>]
    ELSE LET queries == QueryPairs(u.url) IN
         IF ~queries.some THEN [ret |-> ErrNoTicketFound, ticket |-> <<>>]
         ELSE LET ticket == ExtractTicket(queries.val) IN
              IF ticket = <<>> THEN [ret |-> ErrNoTicketFound, ticket |-> <<>>]
              ELSE [ret |-> NoResult, ticket |-> ticket]

\* the tickets verify_ticket is called with directly
Tickets == TextsUpTo({"ST", "&", "+"}, MaxTicketLen)

\* -------------------------------------------------------- state machine

VARIABLES
    client,     \* the CasClient
    pc,         \* "idle", "get" (in verify_ticket, before the GET), "scan", "done"
    caller,     \* the operation called: "verify_ticket", "verify_from_request"
    request,    \* the request verify_from_request borrows, until its call of verify_ticket
    ticket,     \* the ticket verify_ticket is called with
    requested,  \* the URLs the transport was asked to GET in this call
    reply,      \* what the transport returned
    pos,        \* events taken from the iterator
    status,     \* XmlMatchStatus
    result,     \* the value the call returns
    ctor,       \* the call of CasClient::new and what it returned
    returned,   \* the strings the URL accessors returned since construction
    res,        \* what the running redirect did to its Response, in order
    calls       \* the calls of concurrent callers sharing the client

vars == <<client, pc, caller, request, ticket, requested, reply, pos, status, result,
          ctor, returned, res, calls>>

\* the state of the operations that are not the two verify operations
facade == <<ctor, returned, res>>

NoReply == [kind |-> "None", body |-> <<>>]
TransportError == [kind |-> "Err", body |-> <<>>]
Response(body) == [kind |-> "Ok", body |-> body]

\* the callers that share the client
Callers == {"a", "b"}

\* the locals of a call that has not started
IdleContext ==
    [pc |-> "idle", caller |-> "", request |-> NoRequest, ticket |-> <<>>,
     requested |-> <<>>, reply |-> NoReply, pos |-> 0, status |-> "None",
     result |-> NoResult, res |-> <<>>]

\* one caller is running, the locals of the others wait
NoCalls == [running |-> "a", saved |-> [c \in Callers |-> IdleContext]]

Init ==
    /\ client \in Clients
    /\ \E a \in ConstructorArgs : ctor = Construct(a) /\ ctor.client = client
    /\ returned = <<>>
    /\ res = <<>>
    /\ calls = NoCalls
    /\ pc = "idle"
    /\ caller = ""
    /\ request = NoRequest
    /\ ticket = <<>>
    /\ requested = <<>>
    /\ reply = NoReply
    /\ pos = 0
    /\ status = "None"
    /\ result = NoResult

\* verify_ticket(ticket) is called
VerifyTicketCall(t) ==
    /\ pc = "idle"
    /\ pc' = "get"
    /\ caller' = "verify_ticket"
    /\ ticket' = t
    /\ UNCHANGED <<client, request, requested, reply, pos, status, result>>
    /\ UNCHANGED <<facade, calls>>

\* verify_from_request(request) is called and runs to its early return or
\* to its call of verify_ticket
VerifyFromRequestCall(r) ==
    /\ pc = "idle"
    /\ caller' = "verify_from_request"
    /\ request' = r
    /\ LET out == VerifyFromRequest(r) IN
        /\ ticket' = out.ticket
        /\ result' = out.ret
        /\ pc' = IF out.ret = NoResult THEN "get" ELSE "done"
    /\ UNCHANGED <<client, requested, reply, pos, status>>
    /\ UNCHANGED <<facade, calls>>

\* Get that sends the request once more when the transport failed
GetRetries(B) ==
    /\ pc = "get"
    /\ requested' = Append(requested, ValidationUrl(client, ticket))
    /\ request' = NoRequest
    /\ \/ /\ reply' = TransportError
          /\ IF requested = <<>>
             THEN pc' = "get" /\ UNCHANGED result
             ELSE pc' = "done" /\ result' = ErrHyper
          /\ UNCHANGED <<pos, status>>
       \/ /\ \E b \in B : reply' = Response(b)
          /\ pos' = 0
          /\ status' = "None"
          /\ pc' = "scan"
          /\ UNCHANGED result
    /\ UNCHANGED <<client, caller, ticket>>
    /\ UNCHANGED <<facade, calls>>

\* verify_ticket builds the URL and sends the GET; the transport fails, or
\* returns a response whose body is one of B.  verify_ticket is handed the
\* ticket alone: the request verify_from_request borrowed is out of the
\* picture from here on.
Get(B) ==
    /\ pc = "get"
    /\ requested' = Append(requested, ValidationUrl(client, ticket))
    /\ request' = NoRequest
    /\ \/ /\ reply' = TransportError
          /\ result' = ErrHyper
          /\ pc' = "done"
          /\ UNCHANGED <<pos, status>>
       \/ /\ \E b \in B : reply' = Response(b)
          /\ pos' = 0
          /\ status' = "None"
          /\ pc' = "scan"
          /\ UNCHANGED result
    /\ UNCHANGED <<client, caller, ticket>>
    /\ UNCHANGED <<facade, calls>>

\* one turn of the loop over the events
ScanStep ==
    /\ pc = "scan"
    /\ pos < Len(reply.body)
    /\ LET out == OnEvent(status, reply.body[pos + 1]) IN
        /\ status' = out.status
        /\ result' = out.ret
        /\ pc' = IF out.ret = NoResult THEN "scan" ELSE "done"
    /\ pos' = pos + 1
    /\ UNCHANGED <<client, caller, request, ticket, requested, reply>>
    /\ UNCHANGED <<facade, calls>>

\* the iterator is exhausted
ScanEnd ==
    /\ pc = "scan"
    /\ pos = Len(reply.body)
    /\ result' = OnExhausted(status)
    /\ pc' = "done"
    /\ UNCHANGED <<client, caller, request, ticket, requested, reply, pos, status>>
    /\ UNCHANGED <<facade, calls>>

\* the call has returned; the client is ready for the next call
Return ==
    /\ pc = "done"
    /\ pc' = "idle"
    /\ caller' = ""
    /\ request' = NoRequest
    /\ ticket' = <<>>
    /\ requested' = <<>>
    /\ reply' = NoReply
    /\ pos' = 0
    /\ status' = "None"
    /\ result' = NoResult
    /\ res' = <<>>
    /\ UNCHANGED <<client, ctor, returned, calls>>

\* the client with every reply of at most MaxEvents events
Next ==
    \/ \E t \in Tickets : VerifyTicketCall(t)
    \/ \E r \in ExampleRequests : VerifyFromRequestCall(r)
    \/ Get(Bodies)
    \/ ScanStep
    \/ ScanEnd
    \/ Return

Spec == Init /\ [][Next]_vars

\* verify_from_request is called with a request of a supported shape: any
\* target without a query, or with a query of at most MaxQueryLen atoms
VerifyFromPathRequestCall ==
    /\ pc = "idle"
    /\ \E kind \in {"AbsolutePath", "AbsoluteUri"}, k \in 0..MaxQueryLen :
         \E q \in [1..k -> QueryAtoms], hasQuery \in BOOLEAN :
            /\ hasQuery \/ k = 0
            /\ VerifyFromRequestCall(PathRequest(kind, hasQuery, q))

\* the client with every request of at most MaxQueryLen query atoms
NextRequest ==
    \/ \E t \in Tickets : VerifyTicketCall(t)
    \/ VerifyFromPathRequestCall
    \/ \E r \in OtherRequests : VerifyFromRequestCall(r)
    \/ Get(ExampleBodies)
    \/ ScanStep
    \/ ScanEnd
    \/ Return

SpecRequest == Init /\ [][NextRequest]_vars

\* ------------------------------------------ construction, URLs, redirects

\* most strings the URL accessors are asked for after one construction
MaxCalls == 2

\* before the call of CasClient::new
InitNew ==
    /\ client = NoClient
    /\ ctor = NoConstruct
    /\ pc = "new"
    /\ caller = ""
    /\ request = NoRequest
    /\ ticket = <<>>
    /\ requested = <<>>
    /\ reply = NoReply
    /\ pos = 0
    /\ status = "None"
    /\ result = NoResult
    /\ returned = <<>>
    /\ res = <<>>
    /\ calls = NoCalls

\* the locals of the verify operations
verify == <<request, ticket, requested, reply, pos, status>>

\* CasClient::new(base_url, login_path, logout_path, verify_path, service_url)
NewCall(a) ==
    /\ pc = "new"
    /\ ctor' = Construct(a)
    /\ client' = ctor'.client
    /\ pc' = IF ctor'.ok THEN "idle" ELSE "failed"
    /\ UNCHANGED <<caller, verify, result, returned, res, calls>>

\* get_login_url()
GetLoginUrlCall ==
    /\ pc = "idle"
    /\ Len(returned) < MaxCalls
    /\ caller' = "get_login_url"
    /\ result' = UrlString(GetLoginUrl(client))
    /\ returned' = Append(returned, [op |-> "get_login_url", url |-> result'.val])
    /\ pc' = "done"
    /\ UNCHANGED <<client, verify, ctor, res, calls>>

\* get_logout_url()
GetLogoutUrlCall ==
    /\ pc = "idle"
    /\ Len(returned) < MaxCalls
    /\ caller' = "get_logout_url"
    /\ result' = UrlString(GetLogoutUrl(client))
    /\ returned' = Append(returned, [op |-> "get_logout_url", url |-> result'.val])
    /\ pc' = "done"
    /\ UNCHANGED <<client, verify, ctor, res, calls>>

\* login_redirect(res) is called with a fresh Response
LoginRedirectCall ==
    /\ pc = "idle"
    /\ caller' = "login_redirect"
    /\ res' = <<>>
    /\ pc' = "redirect"
    /\ UNCHANGED <<client, verify, result, ctor, returned, calls>>

\* logout_redirect(res) is called with a fresh Response
LogoutRedirectCall ==
    /\ pc = "idle"
    /\ caller' = "logout_redirect"
    /\ res' = <<>>
    /\ pc' = "redirect"
    /\ UNCHANGED <<client, verify, result, ctor, returned, calls>>

\* the next statement of the running redirect; the send, the last one,
\* succeeds or fails, and unwrap() panics when it fails
RedirectStep ==
    /\ pc = "redirect"
    /\ LET ops == IF caller = "login_redirect" THEN LoginRedirect(client)
                  ELSE LogoutRedirect(client)
           n == Len(res) + 1
       IN /\ res' = Append(res, ops[n])
          /\ IF n < Len(ops)
             THEN pc' = "redirect" /\ UNCHANGED result
             ELSE pc' = "done" /\ result' \in {Unit, PanicUnwrap}
    /\ UNCHANGED <<client, caller, verify, ctor, returned, calls>>

\* construction with every text of NewArgs, then the URL accessors and the
\* redirects
NextFacade ==
    \/ \E a \in NewArgs : NewCall(a)
    \/ GetLoginUrlCall
    \/ GetLogoutUrlCall
    \/ LoginRedirectCall
    \/ LogoutRedirectCall
    \/ RedirectStep
    \/ Return

SpecFacade == InitNew /\ [][NextFacade]_vars

\* -------------------------------------------------------- shared client

\* the locals of the running call
Context ==
    [pc |-> pc, caller |-> caller, request |-> request, ticket |-> ticket,
     requested |-> requested, reply |-> reply, pos |-> pos, status |-> status,
     result |-> result, res |-> res]

\* Resume with a status that is one cell for all callers
ResumeSharedStatus(ctx, now) == [ctx EXCEPT !.status = now.status]

\* the locals a caller goes on with when it runs again: its own, whatever
\* the caller that ran in between has in its locals now
Resume(ctx, now) == ctx

\* the running caller waits and caller c goes on: all that the two have in
\* common is the client, borrowed by &self
Switch(c) ==
    /\ c # calls.running
    /\ calls' = [running |-> c,
                 saved |-> [calls.saved EXCEPT ![calls.running] = Context,
                                               ![c] = IdleContext]]
    /\ LET ctx == Resume(calls.saved[c], Context) IN
        /\ pc' = ctx.pc
        /\ caller' = ctx.caller
        /\ request' = ctx.request
        /\ ticket' = ctx.ticket
        /\ requested' = ctx.requested
        /\ reply' = ctx.reply
        /\ pos' = ctx.pos
        /\ status' = ctx.status
        /\ result' = ctx.result
        /\ res' = ctx.res
    /\ UNCHANGED <<client, ctor, returned>>

\* the tickets of the callers that share the client
ExampleTickets == { (<<"ST">>), (<<"ST", "&">>) }

\* two callers on one client, each in any of the six operations
NextShared ==
    \/ \E t \in ExampleTickets : VerifyTicketCall(t)
    \/ \E r \in ExampleRequests : VerifyFromRequestCall(r)
    \/ Get(ExampleBodies)
    \/ ScanStep
    \/ ScanEnd
    \/ GetLoginUrlCall
    \/ GetLogoutUrlCall
    \/ LoginRedirectCall
    \/ LogoutRedirectCall
    \/ RedirectStep
    \/ Return
    \/ \E c \in Callers : Switch(c)

SpecShared == Init /\ [][NextShared]_vars

\* ------------------------------------------------- the claims: helpers

IsSuccessStart(e) == e.type = "StartElement" /\ e.name = "authenticationSuccess"
IsFailureStart(e) == e.type = "StartElement" /\ e.name = "authenticationFailure"
IsText(e) == e.type = "Characters"
IsXmlErr(e) == e.type = "Err"

\* event k of b ends the scan if the scan gets to it: a tokenizer error, an
\* authenticationFailure start, or text after an authenticationSuccess start
TerminalAt(b, k) ==
    \/ IsXmlErr(b[k])
    \/ IsFailureStart(b[k])
    \/ IsText(b[k]) /\ \E m \in 1..(k - 1) : IsSuccessStart(b[m])

\* the scan gets to event k of b: no event before it ends the scan
Seen(b, k) == \A m \in 1..(k - 1) : ~TerminalAt(b, m)

\* the reply is a response whose body is being, or has been, scanned
Scanned == reply.kind = "Ok" /\ pc \in {"scan", "done"}

\* u is the verify URL of self with the two parameters service and ticket and
\* nothing else in its query
IsValidationUrl(u, self, t) ==
    LET p == UrlParse(u) IN
    /\ p.ok
    /\ p.url.origin = self.verify_url.origin
    /\ p.url.path = self.verify_url.path
    /\ p.url.query.some
    /\ FormParse(p.url.query.val)
         = << Pair(<<"service">>, Serialize(self.service_url)), Pair(<<"ticket">>, t) >>

\* the inbound request is of a shape verify_from_request supports
Supported(r) == r.kind \in {"AbsolutePath", "AbsoluteUri"}

\* the query string of a request of a supported shape, as the request has it
RawQuery(r) ==
    IF r.kind = "AbsolutePath" THEN
        LET i == IndexOf(r.s, "?") IN
        IF i = 0 THEN NoQuery ELSE SomeQuery(SubSeq(r.s, i + 1, Len(r.s)))
    ELSE r.u.query

\* the parameters of the query string of a request
Params(r) == FormParse(RawQuery(r).val)

\* the positions of the parameters named ticket
TicketParams(r) == {i \in 1..Len(Params(r)) : Params(r)[i].name = <<"ticket">>}

\* the value of the last parameter named ticket, empty when there is none
LastTicket(r) ==
    IF TicketParams(r) = {} THEN <<>>
    ELSE Params(r)[CHOOSE i \in TicketParams(r) :
                        \A j \in TicketParams(r) : j <= i].value

\* verify_from_request is running, or has returned early, and still holds
\* the request
HoldsRequest == caller = "verify_from_request" /\ request # NoRequest

\* what verify_ticket makes of a reply: the first event that ends the scan
\* decides, and the sentinel Failure when there is none
Outcome(r) ==
    IF r.kind = "Err" THEN ErrHyper
    ELSE LET T == {k \in 1..Len(r.body) : TerminalAt(r.body, k)} IN
         IF T = {} THEN Failure(Sentinel)
         ELSE LET e == r.body[CHOOSE k \in T : \A m \in T : k <= m] IN
              IF IsXmlErr(e) THEN ErrXml
              ELSE IF IsText(e) THEN Success(e.text)
              ELSE IF e.attributes = <<>> THEN Panic
              ELSE Failure(e.attributes[1].value)

\* ------------------------------------------------------------ the claims

\* C1: when the scan has seen an authenticationSuccess start element, and no
\* authenticationFailure start element or tokenizer error comes before the
\* first text event after it, the call returns Success with the text of
\* exactly that event, and no event after it is taken from the stream.
C1_FirstTextIsSuccess ==
    (pc = "done" /\ reply.kind = "Ok") =>
        \A i \in 1..Len(reply.body) : \A j \in (i + 1)..Len(reply.body) :
            ( /\ IsSuccessStart(reply.body[i])
              /\ Seen(reply.body, i)
              /\ IsText(reply.body[j])
              /\ \A k \in (i + 1)..(j - 1) : ~IsText(reply.body[k])
              /\ \A k \in 1..(j - 1) :
                    ~IsFailureStart(reply.body[k]) /\ ~IsXmlErr(reply.body[k]) )
            => /\ result = Success(reply.body[j].text)
               /\ pos = j

\* a call that returned Success from a text event that other events, one of
\* them text, follow
C1_Witness ==
    /\ pc = "done"
    /\ result.tag = "Success"
    /\ pos < Len(reply.body)
    /\ \E k \in (pos + 1)..Len(reply.body) :
          IsText(reply.body[k]) /\ reply.body[k].text # result.val

\* C2: an authenticationFailure start element the scan gets to, in either
\* status, ends the call at once with Failure of the value of the element's
\* first attribute.
C2_FailureIsFirstAttribute ==
    (Scanned /\ pos >= 1 /\ IsFailureStart(reply.body[pos])) =>
        /\ pc = "done"
        /\ result.tag = "Failure"
        /\ Len(reply.body[pos].attributes) >= 1
        /\ result.val = reply.body[pos].attributes[1].value

\* C3: verify_ticket never faults, whatever the reply: an
\* authenticationFailure start element without attributes gives a parse
\* error or a Failure.
C3_NeverFaults == result.tag # "Panic"

\* C4, as stated: whenever the reply holds a tokenizer error, the call
\* returns the XML parse error.  The calls that fault are left to C3: this
\* is the claim for the calls that return.
C4_MalformedIsXmlError ==
    (pc = "done" /\ reply.kind = "Ok" /\ result.tag # "Panic"
        /\ \E k \in 1..Len(reply.body) : IsXmlErr(reply.body[k]))
    => result = ErrXml

\* C4, amended: when the reply holds a tokenizer error and no event before it
\* ends the scan, the call returns the XML parse error, at that event.
C4_MalformedReachedIsXmlError ==
    (pc = "done" /\ reply.kind = "Ok") =>
        \A k \in 1..Len(reply.body) :
            (IsXmlErr(reply.body[k]) /\ Seen(reply.body, k))
            => result = ErrXml /\ pos = k

\* a call that returned the XML parse error after events that did not end
\* the scan, an authenticationSuccess start among them
C4_Witness ==
    /\ pc = "done"
    /\ result = ErrXml
    /\ status = "ExpectSuccess"
    /\ IsXmlErr(reply.body[pos])

\* C5: when the events of a reply without tokenizer error run out, no
\* authenticationFailure start and no text after an authenticationSuccess
\* start among them, the call returns Failure with the one sentinel reason.
C5_ExhaustedIsSentinel ==
    (pc = "done" /\ reply.kind = "Ok"
        /\ \A k \in 1..Len(reply.body) : ~TerminalAt(reply.body, k))
    => result = Failure(Sentinel)

\* a call that ran out of events after an authenticationSuccess start
C5_Witness ==
    /\ pc = "done"
    /\ reply.kind = "Ok"
    /\ result = Failure(Sentinel)
    /\ status = "ExpectSuccess"
    /\ pos = Len(reply.body)

\* C6: the ticket verify_from_request calls verify_ticket with is the value
\* of the last parameter named ticket of the query; the other parameters
\* have no part in it.
C6_LastTicketWins ==
    (caller = "verify_from_request" /\ pc = "get") =>
        /\ TicketParams(request) # {}
        /\ ticket = LastTicket(request)

\* a call of verify_ticket for a request with two parameters named ticket of
\* different values
C6_Witness ==
    /\ caller = "verify_from_request"
    /\ pc = "get"
    /\ \E i \in TicketParams(request) : \E j \in TicketParams(request) :
          /\ i < j
          /\ Params(request)[i].value # <<>>
          /\ Params(request)[i].value # Params(request)[j].value
          /\ ticket = Params(request)[j].value

\* C7: a request of a supported shape without a query string, with an empty
\* query string, without a parameter named ticket, or whose ticket parameter
\* (the last one, C6) has an empty value, fails with NoTicketFound.
C7_NoTicketFound ==
    ( /\ HoldsRequest
      /\ Supported(request)
      /\ \/ ~RawQuery(request).some
         \/ RawQuery(request).val = <<>>
         \/ TicketParams(request) = {}
         \/ LastTicket(request) = <<>> )
    => pc = "done" /\ result = ErrNoTicketFound

\* a call that failed with NoTicketFound on a query whose last parameter
\* named ticket has an empty value and follows one with a value
C7_Witness ==
    /\ HoldsRequest
    /\ pc = "done"
    /\ result = ErrNoTicketFound
    /\ LastTicket(request) = <<>>
    /\ \E i \in TicketParams(request) : Params(request)[i].value # <<>>

\* C8: a request of a shape that is neither AbsolutePath nor AbsoluteUri
\* fails with UnsupportedUriType, also when its text holds a ticket parameter.
C8_UnsupportedUriType ==
    (HoldsRequest /\ ~Supported(request))
    => pc = "done" /\ result = ErrUnsupportedUriType

\* a call that failed with UnsupportedUriType on an Authority whose text
\* holds ticket=x
C8_Witness ==
    /\ HoldsRequest
    /\ pc = "done"
    /\ request.kind = "Authority"
    /\ \E i \in 1..Len(request.s) : request.s[i] = "ticket"
    /\ result = ErrUnsupportedUriType

\* C9: verify_from_request on a request of a supported shape with a
\* non-empty ticket t calls verify_ticket with t and returns what it returns:
\* one GET of the validation URL of t, under the verify URL and not the
\* placeholder host, and the outcome verify_ticket has for the reply; it
\* returns nothing but an extraction error without that call.
C9_SameAsVerifyTicket ==
    /\ (HoldsRequest /\ Supported(request) /\ LastTicket(request) # <<>>)
        => (pc = "get" /\ ticket = LastTicket(request) /\ requested = <<>>)
    /\ (caller = "verify_from_request" /\ pc = "done" /\ reply = NoReply)
        => result \in {ErrNoTicketFound, ErrUnsupportedUriType, ErrUrl}
    /\ (reply # NoReply)
        => (Len(requested) = 1 /\ IsValidationUrl(requested[1], client, ticket))
    /\ (pc = "done" /\ reply # NoReply) => result = Outcome(reply)

\* a verify_from_request that returned the Success of the server's reply,
\* for a ticket with a decoded "&" in it
C9_Witness ==
    /\ caller = "verify_from_request"
    /\ pc = "done"
    /\ Len(requested) = 1
    /\ result = Success(<<"alice">>)
    /\ \E i \in 1..Len(ticket) : ticket[i] = "&"

\* C10: the URL verify_ticket requests is the verify URL with the two
\* parameters service and ticket, in that order, and nothing of the query the
\* configured verify URL had.
C10_ValidationUrl ==
    \A n \in 1..Len(requested) : IsValidationUrl(requested[n], client, ticket)

\* a request for a ticket with a "&" in it, by a client whose verify URL had
\* a query of its own
C10_Witness ==
    /\ caller = "verify_ticket"
    /\ Len(requested) = 1
    /\ client.verify_url.query.some
    /\ \E i \in 1..Len(ticket) : ticket[i] = "&"

\* the four texts CasClient::new parses, in the order it parses them
Configured(a) == << a[1] \o a[2], a[1] \o a[3], a[1] \o a[4], a[5] >>

\* u is the login URL of the construction with the one parameter service,
\* the service URL of the construction, and nothing else in its query
IsLoginUrl(u, a) ==
    LET p == UrlParse(u)
        login == UrlParse(Configured(a)[1]).url
        service == UrlParse(Configured(a)[4]).url
    IN /\ p.ok
       /\ p.url.origin = login.origin
       /\ p.url.path = login.path
       /\ p.url.query.some
       /\ FormParse(p.url.query.val) = << Pair(<<"service">>, Serialize(service)) >>

\* the strings the accessor op has returned since construction
ReturnedBy(op) == {i \in 1..Len(returned) : returned[i].op = op}

\* C11: every string get_login_url returns is the login URL of the
\* construction with exactly one query parameter, service, whose decoded
\* value is the service URL of the construction; all its calls on one client
\* return the same string.
C11_LoginUrlHasOneServiceParameter ==
    \A i \in ReturnedBy("get_login_url") :
        /\ ctor.ok
        /\ IsLoginUrl(returned[i].url, ctor.args)
        /\ \A j \in ReturnedBy("get_login_url") : returned[j].url = returned[i].url

\* two calls of get_login_url on a client whose login URL was configured
\* with a query of its own and whose service URL has a "&" in its query
C11_Witness ==
    /\ Len(returned) = 2
    /\ ReturnedBy("get_login_url") = {1, 2}
    /\ client.login_url.query.some
    /\ \E i \in 1..Len(client.service_url.query.val) :
          client.service_url.query.val[i] = "&"

\* C12: every string get_logout_url returns is the logout URL of the
\* construction, base_url followed by logout_path, with the query it was
\* configured with and nothing added; when the login and logout URLs of the
\* construction differ it is neither the login URL nor what get_login_url
\* returns.
C12_LogoutUrlUnchanged ==
    \A i \in ReturnedBy("get_logout_url") :
        LET logout == UrlParse(Configured(ctor.args)[2]).url
            login == UrlParse(Configured(ctor.args)[1]).url
            p == UrlParse(returned[i].url)
        IN /\ ctor.ok
           /\ returned[i].url = Serialize(logout)
           /\ p.ok /\ p.url = logout
           /\ logout # login =>
                /\ p.url # login
                /\ ~IsLoginUrl(returned[i].url, ctor.args)
                /\ \A j \in ReturnedBy("get_login_url") :
                      returned[j].url # returned[i].url

\* get_logout_url called after get_login_url on a client whose logout URL
\* is not its login URL
C12_Witness ==
    /\ Len(returned) = 2
    /\ returned[1].op = "get_login_url"
    /\ returned[2].op = "get_logout_url"
    /\ client.logout_url # client.login_url
    /\ client.logout_url.path = <<"/logout">>

\* C13: CasClient::new returns a client if and only if each of the four
\* texts parses as an absolute URL, and the client it returns holds the four
\* parsed URLs; when one of them fails, whichever, it returns an error and
\* no client.
C13_AllFourOrNone ==
    (pc # "new") =>
        LET c == Configured(ctor.args) IN
        /\ ctor.ok <=> \A n \in 1..4 : UrlParse(c[n]).ok
        /\ ctor.ok =>
              /\ pc # "failed"
              /\ ctor.client =
                    [login_url |-> UrlParse(c[1]).url, logout_url |-> UrlParse(c[2]).url,
                     verify_url |-> UrlParse(c[3]).url, service_url |-> UrlParse(c[4]).url]
        /\ ~ctor.ok => (pc = "failed" /\ ctor.client = NoClient /\ client = NoClient)

\* a construction that failed on the logout URL alone
C13_Witness ==
    /\ pc = "failed"
    /\ LET c == Configured(ctor.args) IN
        /\ ~UrlParse(c[2]).ok
        /\ \A n \in {1, 3, 4} : UrlParse(c[n]).ok

\* C14: the error of a failed construction carries the text that did not
\* parse and the diagnostic of its parse.
C14_ErrorCarriesOffendingString ==
    (pc = "failed") =>
        \E n \in 1..4 :
            LET s == Configured(ctor.args)[n] IN
            /\ ~UrlParse(s).ok
            /\ DOMAIN ctor.err = {"input", "diagnostic"}
            /\ ctor.err.input = s
            /\ ctor.err.diagnostic = UrlParse(s).err.diagnostic

\* C15: a call of verify_ticket sends one GET and no second one: once the
\* transport has answered, one request has been sent, whatever the call goes
\* on to return; a transport failure ends the call with the Hyper error
\* before any event is taken or the status is touched.
C15_OneGetNoRetry ==
    /\ Len(requested) <= 1
    /\ (pc = "get") => (requested = <<>> /\ reply = NoReply)
    /\ (pc \in {"scan", "done"} /\ reply # NoReply) => Len(requested) = 1
    /\ (reply = TransportError) =>
          (pc = "done" /\ result = ErrHyper /\ pos = 0 /\ status = "None")

\* a verify_ticket that returned the Hyper error after its one request
C15_Witness ==
    /\ caller = "verify_ticket"
    /\ pc = "done"
    /\ reply = TransportError
    /\ result = ErrHyper
    /\ Len(requested) = 1

\* the locals of caller c: those of the running call, or the waiting ones
ContextOf(c) == IF c = calls.running THEN Context ELSE calls.saved[c]

\* the request and the result of a verify call are those of its own ticket
\* and its own reply
OwnResult(ctx) ==
    (ctx.caller \in {"verify_ticket", "verify_from_request"} /\ ctx.reply # NoReply) =>
        /\ Len(ctx.requested) = 1
        /\ IsValidationUrl(ctx.requested[1], client, ctx.ticket)
        /\ ctx.pc = "done" => ctx.result = Outcome(ctx.reply)

\* C16: none of the six operations changes the four URLs of the client, and
\* when two callers interleave their calls on one client in any way, what a
\* verify call requests and returns is what its own ticket and its own reply
\* give, whatever status the other call's scan is in.
C16_SharedClientIndependentCalls ==
    /\ [][client' = client]_vars
    /\ [](\A c \in Callers : OwnResult(ContextOf(c)))

\* two scans under way at once, one that has seen authenticationSuccess and
\* one that has not, for different tickets
C16_Witness ==
    \E c \in Callers :
        /\ c # calls.running
        /\ calls.saved[c].pc = "scan"
        /\ calls.saved[c].status = "ExpectSuccess"
        /\ pc = "scan"
        /\ pos >= 1
        /\ status = "None"
        /\ ticket # calls.saved[c].ticket

\* C17: when the event the scan has just taken is a tokenizer error, in
\* either status, the scan is over there and the call returns the Xml error:
\* not Success, not Failure, not the sentinel Failure of a stream that ran
\* out.
C17_ErrEventIsXmlError ==
    (Scanned /\ pos >= 1 /\ IsXmlErr(reply.body[pos])) =>
        /\ pc = "done"
        /\ result = ErrXml
        /\ result.tag \notin {"Success", "Failure"}
        /\ result # OnExhausted(status)
        /\ status = IF \E m \in 1..pos : IsSuccessStart(reply.body[m])
                    THEN "ExpectSuccess" ELSE "None"

\* a call that returned the Xml error in status None, after events it
\* ignored
C17_Witness ==
    /\ pc = "done"
    /\ reply.kind = "Ok"
    /\ pos >= 2
    /\ IsXmlErr(reply.body[pos])
    /\ status = "None"
    /\ result = ErrXml

\* C18: what a redirect has done to its Response is, at any moment, the
\* beginning of: status set to 302, Location set, body sent empty; it has
\* returned exactly when all three are done.  The Location of login_redirect
\* is the login URL with the one parameter service, the string get_login_url
\* returns; the Location of logout_redirect is the logout URL, the string
\* get_logout_url returns.
C18_RedirectOrder ==
    (caller \in {"login_redirect", "logout_redirect"}) =>
        /\ Len(res) <= 3
        /\ (pc = "done") <=> (Len(res) = 3)
        /\ Len(res) >= 1 => (res[1].op = "status" /\ res[1].code = 302)
        /\ Len(res) >= 2 =>
              /\ res[2].op = "Location"
              /\ IF caller = "login_redirect"
                 THEN /\ IsLoginUrl(res[2].text, ctor.args)
                      /\ \A i \in ReturnedBy("get_login_url") :
                            returned[i].url = res[2].text
                 ELSE /\ res[2].text = Serialize(UrlParse(Configured(ctor.args)[2]).url)
                      /\ \A i \in ReturnedBy("get_logout_url") :
                            returned[i].url = res[2].text
        /\ Len(res) >= 3 => (res[3].op = "send" /\ res[3].text = <<>>)

\* a logout_redirect that has returned, on a client whose logout URL is not
\* its login URL and that was asked for both URLs before
C18_Witness ==
    /\ caller = "logout_redirect"
    /\ pc = "done"
    /\ result = Unit
    /\ Len(res) = 3
    /\ client.logout_url # client.login_url
    /\ ReturnedBy("get_logout_url") # {}
    /\ ReturnedBy("get_login_url") # {}

\* the scan has taken an authenticationSuccess start element
SuccessStartTaken(n) == \E m \in 1..n : IsSuccessStart(reply.body[m])

\* C19: during a scan the status is None until an authenticationSuccess
\* start element has been taken and ExpectSuccess from then on, whatever
\* events follow; a text event taken in status None is passed over; the
\* first text event taken after an authenticationSuccess start element, also
\* one that comes after the end of that element, ends the call with Success
\* of that text.
C19_StatusMonotone ==
    Scanned =>
        /\ status = IF SuccessStartTaken(pos) THEN "ExpectSuccess" ELSE "None"
        /\ (pos >= 1 /\ IsText(reply.body[pos]) /\ ~SuccessStartTaken(pos)) =>
              \/ pc = "scan"
              \/ pos = Len(reply.body) /\ result = Failure(Sentinel)
        /\ (pos >= 1 /\ IsText(reply.body[pos]) /\ SuccessStartTaken(pos)) =>
              (pc = "done" /\ result = Success(reply.body[pos].text))

\* a call that returned Success of a text that follows the end of the
\* authenticationSuccess element
C19_Witness ==
    /\ pc = "done"
    /\ reply.kind = "Ok"
    /\ pos = 3
    /\ IsSuccessStart(reply.body[1])
    /\ reply.body[2] = EndElement
    /\ IsText(reply.body[3])
    /\ result = Success(reply.body[3].text)

\* C20: a verify_from_request that has returned UnsupportedUriType,
\* NoTicketFound or the Url error has sent no request and has no reply; the
\* one request a verify_from_request sends is sent while it holds a request
\* of a supported shape whose last ticket parameter has a value, and it is
\* the validation URL of that value.
C20_GetOnlyWithTicket ==
    /\ []( (caller = "verify_from_request"
              /\ result \in {ErrUnsupportedUriType, ErrNoTicketFound, ErrUrl})
           => (pc = "done" /\ requested = <<>> /\ reply = NoReply) )
    /\ [][ (caller = "verify_from_request" /\ Len(requested') > Len(requested))
           => /\ requested = <<>>
              /\ Supported(request)
              /\ LastTicket(request) # <<>>
              /\ ticket = LastTicket(request)
              /\ Len(requested') = 1
              /\ IsValidationUrl(requested'[1], client, LastTicket(request)) ]_vars

\* a verify_from_request that has sent its request and scans the reply
C20_Witness ==
    /\ caller = "verify_from_request"
    /\ pc = "scan"
    /\ Len(requested) = 1
    /\ ticket # <<>>
    /\ result = NoResult

====
